---- MODULE Spec2Model ----
(***************************************************************************)
(* Adaptive Runge-Kutta integration of fumin/diffeq (src/diffeq.go):       *)
(* rungeKuttaIntegrate, rungeKuttaStep and getFirstStep.                    *)
(*                                                                         *)
(* The derivative callback dydxFunc is opaque to the package, so what it    *)
(* returns is an input of the model: the stage evaluation of one attempt    *)
(* yields a trial state, named by the state it started from and the step   *)
(* it took, and a scaled error norm drawn from ErrNorms.                    *)
(*                                                                         *)
(* float64 is modelled by two finite-precision formats that keep IEEE's     *)
(* NaN, infinities, rounding, overflow and underflow:                       *)
(*   - positions and step sizes are counted in ticks, ULP ticks being the   *)
(*     spacing of float64 around x (math.Nextafter(x, +Inf) - x); a step    *)
(*     size keeps its sub-ULP digits, a position is rounded to the grid;    *)
(*   - the norms of getFirstStep, which span 1e-15 .. 1e+308, are signed    *)
(*     powers of ten (one significant digit), with float64's exponent       *)
(*     range.                                                               *)
(***************************************************************************)
EXTENDS Integers, Sequences, FiniteSets, TLC

VARIABLES
    xspan,        \* argument: <<xspan[0], xspan[1]>>, in ticks
    xs, ys, err,  \* named results of rungeKuttaIntegrate
    x, y, h,      \* iteration state of rungeKuttaIntegrate
    yPlusH,       \* buffer allocated per iteration, written by rk.yPlusH
    hStep,        \* rungeKuttaStep's own copy of h (its parameter)
    minStep, rejected, errorNorm,   \* locals of rungeKuttaStep
    xPlusH, newH, stepErr,          \* results of rungeKuttaStep
    pc,           \* position in rungeKuttaIntegrate / rungeKuttaStep
    everRejected, \* history: some attempt of this call was rejected
    fsArgs, fsRet \* arguments and result of a call of getFirstStep alone

vars == <<xspan, xs, ys, err, x, y, h, yPlusH, hStep, minStep, rejected,
          errorNorm, xPlusH, newH, stepErr, pc, everRejected, fsArgs, fsRet>>

----------------------------------------------------------------------------
(* Bounds of the model.                                                    *)

\* xspan[0] ranges over 0 .. MaxX0 grid points.
MaxX0 == 1
\* The error norm of an attempt ranges over 0 .. MaxErrNorm tenths (and the
\* non-finite values).
MaxErrNorm == 13

----------------------------------------------------------------------------
(* Linear format: a value is NaN, +Inf or a number of units.               *)

Num(n) == [k |-> "num", v |-> n]
NaN == [k |-> "nan", v |-> 0]
PInf == [k |-> "inf", v |-> 1]
NInf == [k |-> "inf", v |-> -1]
IsNaN(a) == a.k = "nan"
IsNum(a) == a.k = "num"

\* a < b of float64: false when either side is NaN.
Lt(a, b) ==
    /\ ~IsNaN(a) /\ ~IsNaN(b)
    /\ \/ IsNum(a) /\ IsNum(b) /\ a.v < b.v
       \/ IsNum(a) /\ b = PInf
       \/ a = NInf /\ b /= NInf

Le(a, b) == ~IsNaN(a) /\ ~IsNaN(b) /\ (Lt(a, b) \/ a = b)

\* Go's builtin min and max: NaN if any argument is NaN.
FMin(a, b) == IF IsNaN(a) \/ IsNaN(b) THEN NaN ELSE IF Lt(b, a) THEN b ELSE a
FMax(a, b) == IF IsNaN(a) \/ IsNaN(b) THEN NaN ELSE IF Lt(a, b) THEN b ELSE a

RECURSIVE IPow(_, _)
IPow(b, n) == IF n = 0 THEN 1 ELSE b * IPow(b, n - 1)

\* Spacing of float64 around x, in ticks: math.Nextafter(x, +Inf) - x.
ULP == 10
\* One tick is 10^TickExp.
TickExp == -8
\* Unit of a factor (hundredths) and of an error norm (tenths).
FactorOne == 100
NormOne == 10

\* fl(x + h): the sum rounded to the grid of positions.
RoundUlp(n) == ((n + ULP \div 2) \div ULP) * ULP

\* h * factor, h in ticks and factor in hundredths, rounded to a tick.
FMul(a, f) ==
    IF IsNaN(a) \/ IsNaN(f) THEN NaN
    ELSE IF a.k = "inf" \/ f.k = "inf"
         THEN (IF a.v = 0 \/ f.v = 0 THEN NaN
               ELSE IF (a.v > 0) = (f.v > 0) THEN PInf ELSE NInf)
    ELSE Num((2 * a.v * f.v + FactorOne) \div (2 * FactorOne))


----------------------------------------------------------------------------
(* Step-size controller arithmetic (rungeKuttaStep, "Compute new h").      *)

\* const maxFactor = 10, minFactor = 0.2, safety = 0.9, in hundredths.
maxFactor == 1000
minFactor == 20
safety == 90

\* dormandPrince.errorOrder().
errorOrder == 4

\* The n-th root of q rounded to the nearest integer: the p with
\* (p - 1/2)^n <= q < (p + 1/2)^n.
IRoot(q, n) ==
    CHOOSE p \in 0..(2 * NormOne) :
        /\ IPow(2 * p - 1, n) <= IPow(2, n) * q
        /\ IPow(2 * p + 1, n) > IPow(2, n) * q

\* math.Pow(errorNorm, exponent) for exponent := -1 / (errorOrder + 1), the
\* error norm and the result in tenths: Pow(NaN) = NaN, Pow(+Inf) = 0,
\* Pow(0) = +Inf, and a finite value is rounded to the nearest tenth.
PowExponent(en) ==
    IF IsNaN(en) THEN NaN
    ELSE IF en.k = "inf" THEN Num(0)
    ELSE IF en.v = 0 THEN PInf
    ELSE Num(IRoot(IPow(NormOne, errorOrder + 2) \div en.v, errorOrder + 1))

\* safety * math.Pow(errorNorm, exponent), in hundredths.
SafetyPow(en) ==
    LET p == PowExponent(en)
    IN  IF IsNum(p) THEN Num((safety * p.v) \div NormOne) ELSE p

\* A faulty variant: the rejected flag is ignored.
AcceptFactorNoDamping(en, rej) ==
    IF en = Num(0) THEN Num(maxFactor) ELSE FMin(SafetyPow(en), Num(maxFactor))

\* The factor of an accepted attempt (errorNorm < 1).
AcceptFactor(en, rej) ==
    LET factor == IF en = Num(0) THEN Num(maxFactor)
                  ELSE FMin(SafetyPow(en), Num(maxFactor))
    IN  IF rej THEN FMin(Num(FactorOne), factor) ELSE factor

\* A faulty variant: a rejection keeps the step size.
RejectFactorNoShrink(en) == Num(FactorOne)
\* A faulty variant: no lower bound minFactor on the shrink factor.
RejectFactorNoFloor(en) == SafetyPow(en)

\* The factor of a rejected attempt.
RejectFactor(en) == FMax(SafetyPow(en), Num(minFactor))

\* minStep := 10 * math.Abs(math.Nextafter(x, math.Inf(1)) - x)
MinStep(xx) == Num(10 * ULP)

\* A faulty variant: the floor is never tested.
BelowFloorNever(hh, ms) == FALSE

\* if h < minStep { return math.NaN(), math.NaN(), ErrTooSmallStep }
BelowFloor(hh, ms) == Lt(hh, ms)

\* if xPlusH > xMax
Overshoots(xx, hh, xMax) == IsNum(hh) /\ RoundUlp(xx + hh.v) > xMax

\* A faulty variant: xPlusH is not clamped to xMax.
XPlusHNoClamp(xx, hh, xMax) ==
    IF IsNaN(hh) THEN NaN ELSE Num(RoundUlp(xx + hh.v))

\* xPlusH = x + h, clamped to xMax.
XPlusH(xx, hh, xMax) ==
    IF IsNaN(hh) THEN NaN
    ELSE IF Overshoots(xx, hh, xMax) THEN Num(xMax)
    ELSE Num(RoundUlp(xx + hh.v))
\* A faulty variant: h keeps its value when x + h overshoots.
ClampHNone(xx, hh, xMax) == hh

\* h after the clamp: h = xPlusH - x when x + h overshoots.
ClampH(xx, hh, xMax) ==
    IF Overshoots(xx, hh, xMax) THEN Num(xMax - xx) ELSE hh

\* errorNorm of an attempt: sqrt(mean((te[i]*h/scale[i])^2)). te is what the
\* callback's stages make of it; a NaN step size makes every term NaN.
ErrorNorm(te, hh) == IF IsNaN(hh) THEN NaN ELSE te

\* The error norms the stages of an attempt may produce (tenths).
ErrNorms == {Num(e) : e \in 0..MaxErrNorm} \cup {PInf, NaN}

\* Trial states. A state vector is named by how it was computed: from y0 or
\* from a fresh zero buffer, by a sequence of steps <<x, h>>.
Y0 == [init |-> TRUE, steps |-> <<>>]
Zeros == [init |-> FALSE, steps |-> <<>>]
\* dormandPrince.yPlusH: yPlusH[i] = y[i] + sum_j b[j]*h*k[j][i].
YPlusH(yy, xx, hh) == [init |-> yy.init, steps |-> Append(yy.steps, <<xx, hh>>)]

----------------------------------------------------------------------------
(* Decade format of getFirstStep: NaN, 0, +-Inf or +-10^e.                  *)

\* float64's decimal exponent range: 1.8e308 overflows to Inf, below 5e-324
\* a value underflows to 0.
MaxExp == 308
MinExp == -323

DNaN == [k |-> "nan", s |-> 1, e |-> 0]
DZero == [k |-> "zero", s |-> 1, e |-> 0]
DInf(s) == [k |-> "inf", s |-> s, e |-> 0]
DNorm(s, e) ==
    IF e > MaxExp THEN DInf(s)
    ELSE IF e < MinExp THEN DZero
    ELSE [k |-> "pow", s |-> s, e |-> e]
P10(e) == DNorm(1, e)

\* Order of the non-NaN values.
DKey(a) ==
    CASE a.k = "zero" -> 0
      [] a.k = "inf" -> a.s * 2 * (MaxExp - MinExp)
      [] OTHER -> a.s * (a.e - MinExp + 1)
DLt(a, b) == a.k /= "nan" /\ b.k /= "nan" /\ DKey(a) < DKey(b)
DLe(a, b) == a.k /= "nan" /\ b.k /= "nan" /\ DKey(a) <= DKey(b)
\* Go's builtin min and max: NaN if any argument is NaN.
DMin(a, b) == IF a.k = "nan" \/ b.k = "nan" THEN DNaN ELSE IF DLt(b, a) THEN b ELSE a
DMax(a, b) == IF a.k = "nan" \/ b.k = "nan" THEN DNaN ELSE IF DLt(a, b) THEN b ELSE a

\* math.Abs.
DAbs(a) == [a EXCEPT !.s = 1]
DNeg(a) == IF a.k \in {"pow", "inf"} THEN [a EXCEPT !.s = -a.s] ELSE a

\* a * b: 0 * Inf = NaN.
DMul(a, b) ==
    IF a.k = "nan" \/ b.k = "nan" THEN DNaN
    ELSE IF a.k = "zero" \/ b.k = "zero"
         THEN (IF a.k = "inf" \/ b.k = "inf" THEN DNaN ELSE DZero)
    ELSE IF a.k = "inf" \/ b.k = "inf" THEN DInf(a.s * b.s)
    ELSE DNorm(a.s * b.s, a.e + b.e)

\* a / b: 0 / 0 = Inf / Inf = NaN, v / 0 = Inf.
DDiv(a, b) ==
    IF a.k = "nan" \/ b.k = "nan" THEN DNaN
    ELSE IF a.k = "zero" THEN (IF b.k = "zero" THEN DNaN ELSE DZero)
    ELSE IF b.k = "zero" THEN DInf(a.s)
    ELSE IF a.k = "inf" THEN (IF b.k = "inf" THEN DNaN ELSE DInf(a.s * b.s))
    ELSE IF b.k = "inf" THEN DZero
    ELSE DNorm(a.s * b.s, a.e - b.e)

\* a + b, rounded to one digit: the larger magnitude; Inf - Inf = NaN.
DAdd(a, b) ==
    IF a.k = "nan" \/ b.k = "nan" THEN DNaN
    ELSE IF a.k = "inf" /\ b.k = "inf" THEN (IF a.s = b.s THEN a ELSE DNaN)
    ELSE IF a.k = "inf" THEN a
    ELSE IF b.k = "inf" THEN b
    ELSE IF a.k = "zero" THEN b
    ELSE IF b.k = "zero" THEN a
    ELSE IF a.e > b.e THEN a
    ELSE IF b.e > a.e THEN b
    ELSE IF a.s = b.s THEN a ELSE DZero
DSub(a, b) == DAdd(a, DNeg(b))

\* math.Pow(a, 2).
DSq(a) ==
    CASE a.k = "pow" -> DNorm(1, 2 * a.e)
      [] a.k = "inf" -> DInf(1)
      [] OTHER -> a
\* math.Sqrt(a).
DSqrt(a) ==
    CASE a.k = "pow" -> (IF a.s = 1 THEN P10(a.e \div 2) ELSE DNaN)
      [] a.k = "inf" -> (IF a.s = 1 THEN a ELSE DNaN)
      [] OTHER -> a
\* math.Pow(a, 1./n) for n > 1: NaN for a negative base.
DRoot(a, n) ==
    CASE a.k = "pow" -> (IF a.s = 1 THEN P10(a.e \div n) ELSE DNaN)
      [] a.k = "inf" -> (IF a.s = 1 THEN a ELSE DNaN)
      [] OTHER -> a

----------------------------------------------------------------------------
(* getFirstStep, for a system of one equation.                             *)

\* tol := tolerance{abs: 1e-6, rel: 1e-3}
tolAbs == P10(-6)
tolRel == P10(-3)

\* scale[i] = tol.abs + math.Abs(y)*tol.rel
FirstScale(y0) == DAdd(tolAbs, DMul(DAbs(y0), tolRel))

\* d += math.Pow(v/scale, 2); d = math.Sqrt(d / float64(len(scale)))
ScaledNorm(v, scale) == DSqrt(DSq(DDiv(v, scale)))

\* h0, clamped: h0 = min(h0, xspan[1]-xspan[0]).
FirstH0(d0, d1, len) ==
    LET h0 == IF DLt(d0, P10(-5)) \/ DLt(d1, P10(-6)) THEN P10(-6)
              ELSE DDiv(DMul(P10(-2), d0), d1)
    IN  DMin(h0, len)

\* d2 = math.Sqrt(d2/float64(len(scale))) / h0
FirstD2(dydx0, dydx1, scale, h0) ==
    DDiv(ScaledNorm(DSub(dydx1, dydx0), scale), h0)

FirstH1(d1, d2, h0) ==
    IF DLe(d1, P10(-15)) /\ DLe(d2, P10(-15))
    THEN DMax(P10(-6), DMul(h0, P10(-3)))
    ELSE DRoot(DDiv(P10(-2), DMax(d1, d2)), errorOrder + 1)

\* dydx0 = dydxFunc(xspan[0], y0) and dydx1 = dydxFunc(xspan[0]+h0, y1) are
\* what the callback returns.
getFirstStep(y0, dydx0, dydx1, len) ==
    LET scale == FirstScale(y0)
        d0 == ScaledNorm(y0, scale)
        d1 == ScaledNorm(dydx0, scale)
        h0 == FirstH0(d0, d1, len)
        d2 == FirstD2(dydx0, dydx1, scale, h0)
        h1 == FirstH1(d1, d2, h0)
    IN  DMin(DMin(DMul(P10(2), h0), h1), len)

\* Between the formats: a number of ticks as a power of ten (rounded down to
\* one digit), and back (below one tick: underflow to 0).
ILog10(n) == CHOOSE j \in 0..9 : IPow(10, j) <= n /\ n < IPow(10, j + 1)
ToDec(n) ==
    IF n = 0 THEN DZero
    ELSE IF n > 0 THEN P10(ILog10(n) + TickExp)
    ELSE DNorm(-1, ILog10(-n) + TickExp)
ToLin(d) ==
    CASE d.k = "nan" -> NaN
      [] d.k = "zero" -> Num(0)
      [] d.k = "inf" -> (IF d.s = 1 THEN PInf ELSE NInf)
      [] OTHER -> IF d.e < TickExp THEN Num(0)
                  ELSE Num(d.s * IPow(10, d.e - TickExp))

----------------------------------------------------------------------------
(* Inputs.                                                                 *)

\* xspan, on the grid of positions: forward, empty and reversed intervals.
XSpans ==
    {<<i * ULP, x1>> : i \in 0..MaxX0, x1 \in {0, 10 * ULP, 30 * ULP}}

\* Finite values of y0 and of the derivative the callback returns.
Y0Values == {DZero, P10(-6), P10(0)}
DydxValues == {DZero, P10(-9), P10(0), P10(6), P10(160)}

\* What getFirstStep may return for an interval of len ticks, over the values
\* of y0 and of the callback's derivatives, in ticks.
FirstSteps ==
    [len \in {s[2] - s[1] : s \in XSpans} |->
        {ToLin(getFirstStep(y0, dydx0, dydx1, ToDec(len))) :
            y0 \in Y0Values, dydx0 \in DydxValues, dydx1 \in DydxValues}]

\* The controller's factors, tabulated over the error norms.
AcceptFactors == [en \in ErrNorms, rej \in BOOLEAN |-> AcceptFactor(en, rej)]
RejectFactors == [en \in ErrNorms |-> RejectFactor(en)]

NoArgs == [y0 |-> DZero, dydx0 |-> DZero, dydx1 |-> DZero, len |-> DZero]

----------------------------------------------------------------------------
(* rungeKuttaIntegrate and rungeKuttaStep.                                 *)

stepVars == <<yPlusH, hStep, minStep, rejected, errorNorm, xPlusH, newH, stepErr>>
fsVars == <<fsArgs, fsRet>>

Init ==
    /\ xspan \in XSpans
    /\ xs = <<>> /\ ys = <<>> /\ err = "nil"
    /\ x = 0 /\ y = Zeros /\ h = Num(0)
    /\ yPlusH = Zeros /\ hStep = Num(0) /\ minStep = Num(0)
    /\ rejected = FALSE /\ errorNorm = Num(0)
    /\ xPlusH = Num(0) /\ newH = Num(0) /\ stepErr = "nil"
    /\ pc = "start"
    /\ everRejected = FALSE
    /\ fsArgs = NoArgs /\ fsRet = DZero

\* Lines 31-40: seed the trajectory, compute the first step size.
Start ==
    /\ pc = "start"
    /\ xs' = <<xspan[1]>>
    /\ ys' = <<Y0>>
    /\ h' \in FirstSteps[xspan[2] - xspan[1]]
    /\ x' = xspan[1]
    /\ y' = Y0
    /\ pc' = "loop"
    /\ UNCHANGED <<xspan, err, stepVars, everRejected, fsVars>>

\* Lines 41-43 and 62-63: x < xspan[1], a fresh yPlusH, rungeKuttaStep entered.
EnterStep ==
    /\ pc = "loop"
    /\ x < xspan[2]
    /\ yPlusH' = Zeros
    /\ hStep' = h
    /\ minStep' = MinStep(x)
    /\ rejected' = FALSE
    /\ errorNorm' = Num(0)
    /\ pc' = "step"
    /\ UNCHANGED <<xspan, xs, ys, err, x, y, h, xPlusH, newH, stepErr,
                   everRejected, fsVars>>

\* Lines 65-67: h < minStep.
TooSmallStep ==
    /\ pc = "step"
    /\ BelowFloor(hStep, minStep)
    /\ xPlusH' = NaN
    /\ newH' = NaN
    /\ stepErr' = "ErrTooSmallStep"
    /\ pc' = "returned"
    /\ UNCHANGED <<xspan, xs, ys, err, x, y, h, yPlusH, hStep, minStep,
                   rejected, errorNorm, everRejected, fsVars>>

\* A faulty variant: the accepted attempt leaves the trial state of an earlier attempt
\* in yPlusH.
AcceptAttemptStaleTrial ==
    /\ pc = "step"
    /\ ~BelowFloor(hStep, minStep)
    /\ \E te \in ErrNorms :
          LET hh == ClampH(x, hStep, xspan[2])
              en == ErrorNorm(te, hh)
          IN  /\ Lt(en, Num(NormOne))
              /\ xPlusH' = XPlusH(x, hStep, xspan[2])
              /\ hStep' = hh
              /\ errorNorm' = en
              /\ newH' = FMul(hh, AcceptFactors[en, rejected])
    /\ stepErr' = "nil"
    /\ pc' = "returned"
    /\ UNCHANGED <<xspan, xs, ys, err, x, y, h, yPlusH, minStep, rejected,
                   everRejected, fsVars>>

\* Lines 69-106: an attempt whose error norm is below 1 is accepted.
AcceptAttempt ==
    /\ pc = "step"
    /\ ~BelowFloor(hStep, minStep)
    /\ \E te \in ErrNorms :
          LET hh == ClampH(x, hStep, xspan[2])
              en == ErrorNorm(te, hh)
          IN  /\ Lt(en, Num(NormOne))
              /\ xPlusH' = XPlusH(x, hStep, xspan[2])
              /\ hStep' = hh
              /\ yPlusH' = YPlusH(y, x, hh)
              /\ errorNorm' = en
              /\ newH' = FMul(hh, AcceptFactors[en, rejected])
    /\ stepErr' = "nil"
    /\ pc' = "returned"
    /\ UNCHANGED <<xspan, xs, ys, err, x, y, h, minStep, rejected,
                   everRejected, fsVars>>

\* Lines 69-110: any other attempt is rejected and retried with a new h.
RejectAttempt ==
    /\ pc = "step"
    /\ ~BelowFloor(hStep, minStep)
    /\ \E te \in ErrNorms :
          LET hh == ClampH(x, hStep, xspan[2])
              en == ErrorNorm(te, hh)
          IN  /\ ~Lt(en, Num(NormOne))
              /\ xPlusH' = XPlusH(x, hStep, xspan[2])
              /\ yPlusH' = YPlusH(y, x, hh)
              /\ errorNorm' = en
              /\ hStep' = FMul(hh, RejectFactors[en])
    /\ rejected' = TRUE
    /\ everRejected' = TRUE
    /\ UNCHANGED <<xspan, xs, ys, err, x, y, h, minStep, newH, stepErr, pc,
                   fsVars>>

\* A faulty variant: the error is returned with the trajectory accumulated so far.
FailIntegrateKeepsPartial ==
    /\ pc = "returned"
    /\ stepErr /= "nil"
    /\ err' = stepErr
    /\ pc' = "failed"
    /\ UNCHANGED <<xspan, xs, ys, x, y, h, stepVars, everRejected, fsVars>>

\* Lines 44-46: return nil, nil, errors.Wrap(err, "").
FailIntegrate ==
    /\ pc = "returned"
    /\ stepErr /= "nil"
    /\ xs' = <<>>
    /\ ys' = <<>>
    /\ err' = stepErr
    /\ pc' = "failed"
    /\ UNCHANGED <<xspan, x, y, h, stepVars, everRejected, fsVars>>

\* Lines 48-55: add to result, update iteration state.
Advance ==
    /\ pc = "returned"
    /\ stepErr = "nil"
    /\ xs' = Append(xs, xPlusH.v)
    /\ ys' = Append(ys, yPlusH)
    /\ x' = xPlusH.v
    /\ y' = yPlusH
    /\ h' = newH
    /\ pc' = "loop"
    /\ UNCHANGED <<xspan, err, stepVars, everRejected, fsVars>>

\* Lines 41 and 58: the loop ends, the named results are returned.
Return ==
    /\ pc = "loop"
    /\ ~(x < xspan[2])
    /\ pc' = "done"
    /\ UNCHANGED <<xspan, xs, ys, err, x, y, h, stepVars, everRejected, fsVars>>

Next ==
    \/ Start
    \/ EnterStep
    \/ TooSmallStep
    \/ AcceptAttempt
    \/ RejectAttempt
    \/ FailIntegrate
    \/ Advance
    \/ Return

Spec == Init /\ [][Next]_vars

\* The function runs on: a sequential program takes its next step.
LiveSpec == Spec /\ WF_vars(Next)

----------------------------------------------------------------------------
(* getFirstStep on its own: the arguments are drawn, the function applied.  *)

FirstStepArgs ==
    [y0 : Y0Values, dydx0 : DydxValues, dydx1 : DydxValues,
     len : {DNorm(-1, -6), DZero, P10(-7), P10(-6), P10(0)}]

InitFirstStep ==
    /\ fsArgs \in FirstStepArgs
    /\ fsRet = DZero
    /\ pc = "firststep"
    /\ xspan = <<0, 0>>
    /\ xs = <<>> /\ ys = <<>> /\ err = "nil"
    /\ x = 0 /\ y = Zeros /\ h = Num(0)
    /\ yPlusH = Zeros /\ hStep = Num(0) /\ minStep = Num(0)
    /\ rejected = FALSE /\ errorNorm = Num(0)
    /\ xPlusH = Num(0) /\ newH = Num(0) /\ stepErr = "nil"
    /\ everRejected = FALSE

CallFirstStep ==
    /\ pc = "firststep"
    /\ fsRet' = getFirstStep(fsArgs.y0, fsArgs.dydx0, fsArgs.dydx1, fsArgs.len)
    /\ pc' = "firststep_done"
    /\ UNCHANGED <<xspan, xs, ys, err, x, y, h, stepVars, everRejected, fsArgs>>

NextFirstStep == CallFirstStep

SpecFirstStep == InitFirstStep /\ [][NextFirstStep]_vars

----------------------------------------------------------------------------
(* Claims.                                                                 *)

Accepted == pc = "returned" /\ stepErr = "nil"
Increasing(seq) == \A i \in 1..(Len(seq) - 1) : seq[i] < seq[i + 1]
Last(seq) == seq[Len(seq)]

\* C1 (as stated): every call that returns without error returns xs strictly
\* increasing, with xs[0] = xspan[0] and the last element equal to xspan[1],
\* for every xspan, xspan[0] >= xspan[1] included.
C1_MonotonicAnySpan ==
    pc = "done" =>
        /\ Increasing(xs)
        /\ xs[1] = xspan[1]
        /\ Last(xs) = xspan[2]

\* C1 (amended): every call that returns without error returns xs strictly
\* increasing with xs[0] = xspan[0]; the last element equals xspan[1] when
\* xspan[0] <= xspan[1], and xs is xspan[0] alone when xspan[0] >= xspan[1].
C1_Monotonic ==
    pc = "done" =>
        /\ err = "nil"
        /\ Increasing(xs)
        /\ xs[1] = xspan[1]
        /\ xspan[1] <= xspan[2] => Last(xs) = xspan[2]
        /\ xspan[1] >= xspan[2] => xs = <<xspan[1]>>

\* A call that took several steps, the last one clamped to xspan[1].
C1_Witness ==
    /\ pc = "done"
    /\ Len(xs) >= 3
    /\ Last(xs) = xspan[2]
    /\ everRejected

\* C4: when a step fails with ErrTooSmallStep, rungeKuttaIntegrate returns at
\* once a non-nil error with xs and ys nil, whatever was accumulated, and
\* attempts no further step.
C4_FailureDiscardsAll ==
    /\ pc = "failed" =>
          /\ xs = <<>> /\ ys = <<>>
          /\ err = "ErrTooSmallStep"
          /\ ~ENABLED Next
    /\ (pc = "returned" /\ stepErr /= "nil") =>
          /\ ENABLED FailIntegrate
          /\ ~ENABLED Advance

\* A failure after at least one accepted step.
C4_Witness ==
    /\ pc = "failed"
    /\ x > xspan[1]
    /\ xs = <<>>

\* One iteration of rungeKuttaStep's loop that evaluated the stages.
Attempted == pc = "step" /\ ~(pc' = "returned" /\ stepErr' /= "nil")
AttemptAccepted == Attempted /\ pc' = "returned"
AttemptRejected == Attempted /\ pc' = "step"

\* C2: if every attempt produces an error norm >= 1, the integration ends
\* after finitely many rejections in ErrTooSmallStep: a call of rungeKuttaStep
\* either fails, or saw an attempt with a norm below 1 (accepted) or NaN; and
\* each rejection with a norm >= 1 strictly shrinks h.
C2_RejectionsEndInTooSmall ==
    /\ (pc = "step") ~> (pc = "failed" \/ Accepted \/ IsNaN(errorNorm))
    /\ [][(AttemptRejected /\ Le(Num(NormOne), errorNorm'))
            => Lt(hStep', ClampH(x, hStep, xspan[2]))]_vars

\* A failure reached through rejections whose norms were >= 1.
C2_Witness ==
    /\ pc = "failed"
    /\ rejected
    /\ Le(Num(NormOne), errorNorm)
    /\ Lt(hStep, minStep)

\* C3: an attempt whose error norm is NaN is treated as rejected and retried
\* with a smaller, non-NaN step size (so that a persistently NaN derivative
\* ends in ErrTooSmallStep).
C3_NaNShrinksStep ==
    [][(Attempted /\ IsNaN(errorNorm') /\ IsNum(hStep))
          => /\ pc' = "step" /\ rejected'
             /\ IsNum(hStep')
             /\ Lt(hStep', ClampH(x, hStep, xspan[2]))]_vars

\* C5: an attempt accepted after a rejection in the same call of
\* rungeKuttaStep grows by a factor of at most 1 (newH <= h); rejected is
\* false when a step begins, and an accepted attempt with no rejection before
\* it in its own call takes the unlimited factor, whatever happened in
\* earlier steps.
C5_RejectionDamping ==
    /\ [](Accepted /\ rejected => Le(newH, hStep))
    /\ [](Accepted /\ ~rejected
            => newH = FMul(hStep, AcceptFactors[errorNorm, FALSE]))
    /\ [][(pc = "loop" /\ pc' = "step") => ~rejected']_vars

\* An accepted attempt with error norm 0 after a rejection: the factor 10 is
\* cut to 1.
C5_Witness ==
    /\ Accepted
    /\ rejected
    /\ errorNorm = Num(0)
    /\ newH = hStep

\* C6: every point appended after the first comes from an attempt whose error
\* norm was below 1, and its y is the trial state of that very attempt.
C6_AppendedIsAccepted ==
    /\ [](Accepted =>
            /\ Lt(errorNorm, Num(NormOne))
            /\ yPlusH = YPlusH(y, x, hStep)
            /\ xPlusH = XPlusH(x, hStep, xspan[2]))
    /\ [][(pc /= "start" /\ ys' /= ys /\ pc' /= "failed") =>
            /\ Accepted
            /\ ys' = Append(ys, yPlusH)
            /\ xs' = Append(xs, xPlusH.v)]_vars

\* A point appended by an attempt accepted after a rejected attempt at the
\* same x.
C6_Witness ==
    /\ pc = "loop"
    /\ Len(ys) >= 2
    /\ rejected
    /\ Last(ys) = yPlusH
    /\ Last(ys) = YPlusH(ys[Len(ys) - 1], xs[Len(xs) - 1], hStep)

\* The step size an attempt evaluates the stages with.
UsedH == ClampH(x, hStep, xspan[2])

\* C7 (as stated): a rejected attempt with error norm >= 1 retries with
\* 0.2*h <= h' <= 0.9*h; an accepted attempt proposes 0.9*h < newH <= 10*h,
\* and newH = 10*h when the norm is 0 and no rejection preceded it.
C7_FactorBoundsStrict ==
    [][/\ (AttemptRejected /\ Le(Num(NormOne), errorNorm')) =>
            /\ Le(FMul(UsedH, Num(minFactor)), hStep')
            /\ Le(hStep', FMul(UsedH, Num(safety)))
       /\ AttemptAccepted =>
            /\ Lt(FMul(UsedH, Num(safety)), newH')
            /\ Le(newH', FMul(UsedH, Num(maxFactor)))
            /\ (errorNorm' = Num(0) /\ ~rejected)
                  => newH' = FMul(UsedH, Num(maxFactor))]_vars

\* C7 (amended): a rejected attempt with error norm >= 1 retries with
\* 0.2*h <= h' <= 0.9*h; an accepted attempt proposes 0.9*h <= newH <= 10*h,
\* and newH = 10*h when the norm is 0 and no rejection preceded it.
C7_FactorBounds ==
    [][/\ (AttemptRejected /\ Le(Num(NormOne), errorNorm')) =>
            /\ Le(FMul(UsedH, Num(minFactor)), hStep')
            /\ Le(hStep', FMul(UsedH, Num(safety)))
       /\ AttemptAccepted =>
            /\ Le(FMul(UsedH, Num(safety)), newH')
            /\ Le(newH', FMul(UsedH, Num(maxFactor)))
            /\ (errorNorm' = Num(0) /\ ~rejected)
                  => newH' = FMul(UsedH, Num(maxFactor))]_vars

\* An accepted attempt, norm just below 1, whose next step is exactly 0.9*h.
C7_Witness ==
    /\ Accepted
    /\ Lt(Num(0), errorNorm)
    /\ hStep.v >= minStep.v
    /\ newH = FMul(hStep, Num(safety))

\* C9 (as stated): when x + h overshoots xEnd the attempt is taken with
\* h = xEnd - x, and the retry step after a rejection and the next step after
\* an acceptance are derived from the unclamped h.
C9_ClampKeepsProposal ==
    [][(Attempted /\ Overshoots(x, hStep, xspan[2])) =>
          /\ xPlusH' = Num(xspan[2])
          /\ yPlusH' = YPlusH(y, x, Num(xspan[2] - x))
          /\ AttemptRejected => hStep' = FMul(hStep, RejectFactor(errorNorm'))
          /\ AttemptAccepted =>
                newH' = FMul(hStep, AcceptFactor(errorNorm', rejected))]_vars

\* C9 (amended): when x + h overshoots xEnd the attempt is taken with
\* h = xEnd - x, and the retry step after a rejection and the next step after
\* an acceptance are derived from the clamped h = xEnd - x.
C9_ClampReplacesH ==
    [][(Attempted /\ Overshoots(x, hStep, xspan[2])) =>
          /\ xPlusH' = Num(xspan[2])
          /\ yPlusH' = YPlusH(y, x, Num(xspan[2] - x))
          /\ AttemptRejected =>
                hStep' = FMul(Num(xspan[2] - x), RejectFactor(errorNorm'))
          /\ AttemptAccepted =>
                /\ hStep' = Num(xspan[2] - x)
                /\ newH' = FMul(Num(xspan[2] - x),
                                AcceptFactor(errorNorm', rejected))]_vars

\* The first attempt of a step overshot, was clamped and rejected; the retry
\* step is smaller than 0.9 times the clamped step, not 0.9 times h.
C9_Witness ==
    /\ pc = "step"
    /\ rejected
    /\ Overshoots(x, h, xspan[2])
    /\ Lt(Num(xspan[2] - x), h)
    /\ xPlusH = Num(xspan[2])
    /\ Le(hStep, FMul(Num(xspan[2] - x), Num(safety)))

\* C10 (as stated): an attempt whose h is below 10*ulp(x) signals
\* ErrTooSmallStep without evaluating the stages, and no stage evaluation and
\* no accepted step uses a step size below that floor, the clamped final step
\* included.
C10_NoStepBelowFloor ==
    [][pc = "step" =>
          IF Lt(hStep, MinStep(x))
          THEN pc' = "returned" /\ stepErr' = "ErrTooSmallStep"
               /\ yPlusH' = yPlusH
          ELSE ~Lt(Last(yPlusH'.steps)[2], MinStep(x))]_vars

\* C10 (amended): an attempt whose h is below 10*ulp(x) before the clamp
\* signals ErrTooSmallStep without evaluating the stages; a stage evaluation
\* uses a step size below that floor only when it is the step clamped to
\* xEnd - x, which is positive.
C10_FloorBeforeClamp ==
    [][pc = "step" =>
          IF Lt(hStep, MinStep(x))
          THEN pc' = "returned" /\ stepErr' = "ErrTooSmallStep"
               /\ yPlusH' = yPlusH
          ELSE LET used == Last(yPlusH'.steps)[2]
               IN  Lt(used, MinStep(x)) =>
                      /\ Overshoots(x, hStep, xspan[2])
                      /\ used = Num(xspan[2] - x)
                      /\ used.v > 0]_vars

\* An accepted final step whose clamped size is below the floor.
C10_Witness ==
    /\ Accepted
    /\ Lt(hStep, minStep)
    /\ xPlusH = Num(xspan[2])
    /\ Last(yPlusH.steps)[2] = hStep

\* C8: for xspan[1] > xspan[0], getFirstStep returns a strictly positive step
\* size that is at most xspan[1] - xspan[0], equal to min(100*h0, h1,
\* xspan[1]-xspan[0]).
C8_FirstStepPositive ==
    (pc = "firststep_done" /\ DLt(DZero, fsArgs.len)) =>
        /\ DLt(DZero, fsRet)
        /\ DLe(fsRet, fsArgs.len)

============================================================================
